---------------------------- MODULE Spec2Model ----------------------------
(***************************************************************************)
(* Receiver-Matchup-Tool: one call of compute_model, in both files that    *)
(* define it:                                                              *)
(*   src/Inputs/app.py  regressed and clamped ratios, System A / System B  *)
(*                      hybrid, route-share penalty, sort on |Edge|        *)
(*                      (app = "Inputs");                                  *)
(*   src/app.py         the earlier model: league-leader sample penalty,   *)
(*                      rank on adjusted_yprr (app = "root").              *)
(*                                                                         *)
(* Numbers.  The source computes in IEEE doubles.  Here a number is an     *)
(* exact rational <<n, d>> in lowest terms with d > 0; the pair <<0, 0>>   *)
(* is NaN (a missing CSV cell, pd.isna): every arithmetic operation        *)
(* propagates it and every comparison with it is FALSE, as for doubles.    *)
(* A division by zero also yields it (numpy gives inf or nan, no raise).   *)
(* round() rounds the exact value, halves to even.                         *)
(*                                                                         *)
(* Tables.  base_yprr, routes_played and route_share are numbers in every  *)
(* receiver row (the splits and the opponent may be missing); def_df holds *)
(* fractions, i.e. it is the table after the load-time division by 100.    *)
(* The league averages are the column means of def_df.                     *)
(***************************************************************************)
EXTENDS Integers, Sequences, FiniteSets, TLC

-----------------------------------------------------------------------------
(* Exact rational arithmetic standing for the float arithmetic of the code *)

RECURSIVE GCD(_, _)
GCD(a, b) == IF b = 0 THEN a ELSE GCD(b, a % b)

IAbs(n) == IF n < 0 THEN -n ELSE n

NaN == <<0, 0>>

isna(x) == x[2] = 0

\* n / d in lowest terms; a zero denominator gives a non-finite value
Rat(n, d) ==
    IF d = 0 THEN NaN
    ELSE LET g == GCD(IAbs(n), IAbs(d))
             s == IF d < 0 THEN -1 ELSE 1
         IN  <<(s * n) \div g, (s * d) \div g>>

R(n) == <<n, 1>>

RAdd(x, y) == IF isna(x) \/ isna(y) THEN NaN
              ELSE Rat(x[1] * y[2] + y[1] * x[2], x[2] * y[2])

RSub(x, y) == IF isna(x) \/ isna(y) THEN NaN
              ELSE Rat(x[1] * y[2] - y[1] * x[2], x[2] * y[2])

RMul(x, y) == IF isna(x) \/ isna(y) THEN NaN
              ELSE Rat(x[1] * y[1], x[2] * y[2])

RDiv(x, y) == IF isna(x) \/ isna(y) THEN NaN
              ELSE Rat(x[1] * y[2], x[2] * y[1])

RLt(x, y) == ~isna(x) /\ ~isna(y) /\ x[1] * y[2] < y[1] * x[2]

RLe(x, y) == ~isna(x) /\ ~isna(y) /\ x[1] * y[2] <= y[1] * x[2]

RGe(x, y) == RLe(y, x)

RGt(x, y) == RLt(y, x)

RAbs(x) == <<IAbs(x[1]), x[2]>>

RECURSIVE RPow(_, _)
RPow(x, k) == IF k = 0 THEN R(1) ELSE RMul(x, RPow(x, k - 1))

\* np.clip(x, lo, hi)
clip(x, lo, hi) == IF RLt(x, lo) THEN lo ELSE IF RGt(x, hi) THEN hi ELSE x

\* round(x, k): to the nearest multiple of 1/scale, halves to the even one
round(x, scale) ==
    IF isna(x) THEN NaN
    ELSE LET num == x[1] * scale
             q   == num \div x[2]
             r   == num % x[2]
             t   == IF 2 * r < x[2] THEN q
                    ELSE IF 2 * r > x[2] THEN q + 1
                    ELSE IF q % 2 = 0 THEN q ELSE q + 1
         IN  Rat(t, scale)

-----------------------------------------------------------------------------
(* src/Inputs/app.py: constants of compute_model                           *)

REG_K == 20

MIN_RATIO == Rat(6, 10)

MAX_RATIO == Rat(16, 10)

\* the floor of the eligibility test, base < 0.4
BASE_FLOOR == Rat(4, 10)

\* the two route-share qualification cut-offs
QUALIFIED_35 == 35

QUALIFIED_20 == 20

PctCols == {"man_pct", "zone_pct", "onehigh_pct", "twohigh_pct", "zerohigh_pct"}

RECURSIVE SumCol(_, _, _)
SumCol(def, teams, col) ==
    IF teams = {} THEN R(0)
    ELSE LET t == CHOOSE x \in teams : TRUE
         IN  RAdd(def[t][col], SumCol(def, teams \ {t}, col))

\* def_df[col].mean(), the module-level league averages
league_avg(def, col) ==
    IF DOMAIN def = {} THEN NaN
    ELSE RDiv(SumCol(def, DOMAIN def, col), R(Cardinality(DOMAIN def)))

\* a faulty variant: `routes < 0` for `routes <= 0`
skipped_strict_routes(row, def) ==
    \/ RLt(row.base_yprr, BASE_FLOOR)
    \/ RLt(row.routes_played, R(0))
    \/ row.opponent = "NaN"
    \/ row.opponent \notin DOMAIN def

\* the row is skipped by the two `continue` tests
skipped(row, def) ==
    \/ RLt(row.base_yprr, BASE_FLOOR)
    \/ RLe(row.routes_played, R(0))
    \/ row.opponent = "NaN"
    \/ row.opponent \notin DOMAIN def

\* a faulty variant: the ratio is returned without np.clip
regressed_ratio_unclipped(split_yprr, base, routes) ==
    LET split     == IF isna(split_yprr) THEN base ELSE split_yprr
        effective == RDiv(RAdd(RMul(split, routes), RMul(base, R(REG_K))),
                          RAdd(routes, R(REG_K)))
    IN  RDiv(effective, base)

\* Player-relative regression helper (closure over base and routes)
regressed_ratio(split_yprr, base, routes) ==
    LET split     == IF isna(split_yprr) THEN base ELSE split_yprr
        effective == RDiv(RAdd(RMul(split, routes), RMul(base, R(REG_K))),
                          RAdd(routes, R(REG_K)))
        ratio     == RDiv(effective, base)
    IN  clip(ratio, MIN_RATIO, MAX_RATIO)

\* a faulty variant: the division is not guarded by `total_safety > 0`
normalised_safety_unguarded(safety_component, total_safety) ==
    RDiv(safety_component, total_safety)

\* safety_component after `if total_safety > 0: safety_component /= total_safety`
normalised_safety(safety_component, total_safety) ==
    IF RGt(total_safety, R(0)) THEN RDiv(safety_component, total_safety)
    ELSE safety_component

\* System A
systemA(coverage_component, total_coverage, safety_component, total_safety) ==
    IF RGt(RAdd(total_coverage, total_safety), R(0))
    THEN RDiv(RAdd(RMul(coverage_component, total_coverage),
                   RMul(safety_component, total_safety)),
              RAdd(total_coverage, total_safety))
    ELSE RDiv(RAdd(coverage_component, safety_component), R(2))

\* System B: the deviation weights <<coverage_weight_dev, safety_weight_dev>>
deviation_weights(coverage_dev, safety_dev) ==
    IF RGt(RAdd(coverage_dev, safety_dev), R(0))
    THEN <<RDiv(coverage_dev, RAdd(coverage_dev, safety_dev)),
           RDiv(safety_dev, RAdd(coverage_dev, safety_dev))>>
    ELSE <<Rat(1, 2), Rat(1, 2)>>

\* which branch of the route-share penalty is taken
penalty_branch(route_share, cfg) ==
    IF RGe(route_share, cfg.start_penalty) THEN "none"
    ELSE IF RLe(route_share, cfg.end_penalty) THEN "max"
    ELSE "ramp"

\* Route-share penalty
route_share_penalty(route_share, cfg) ==
    LET b == penalty_branch(route_share, cfg)
    IN  IF b = "none" THEN R(0)
        ELSE IF b = "max" THEN cfg.max_penalty
        ELSE RMul(cfg.max_penalty,
                  RPow(RDiv(RSub(cfg.start_penalty, route_share),
                            RSub(cfg.start_penalty, cfg.end_penalty)),
                       cfg.exponent))

\* adjusted_yprr = base * ((final_ratio + blitz_ratio) / 2)
adjusted(base, final_ratio, blitz_ratio) ==
    RMul(base, RDiv(RAdd(final_ratio, blitz_ratio), R(2)))

\* the body of the scoring loop for one eligible row: every local it computes
score(row, def, cfg) ==
    LET base    == row.base_yprr
        routes  == row.routes_played
        defense == def[row.opponent]
        man_ratio      == regressed_ratio(row.yprr_man, base, routes)
        zone_ratio     == regressed_ratio(row.yprr_zone, base, routes)
        onehigh_ratio  == regressed_ratio(row.yprr_1high, base, routes)
        twohigh_ratio  == regressed_ratio(row.yprr_2high, base, routes)
        zerohigh_ratio == regressed_ratio(row.yprr_0high, base, routes)
        blitz_ratio    == regressed_ratio(row.yprr_blitz, base, routes)
        coverage_component ==
            RAdd(RMul(defense.man_pct, man_ratio), RMul(defense.zone_pct, zone_ratio))
        total_coverage == RAdd(defense.man_pct, defense.zone_pct)
        safety_raw ==
            RAdd(RAdd(RMul(defense.onehigh_pct, onehigh_ratio),
                      RMul(defense.twohigh_pct, twohigh_ratio)),
                 RMul(defense.zerohigh_pct, zerohigh_ratio))
        total_safety ==
            RAdd(RAdd(defense.onehigh_pct, defense.twohigh_pct), defense.zerohigh_pct)
        safety_component == normalised_safety(safety_raw, total_safety)
        systemA_ratio ==
            systemA(coverage_component, total_coverage, safety_component, total_safety)
        coverage_dev ==
            RAdd(RAbs(RSub(defense.man_pct, league_avg(def, "man_pct"))),
                 RAbs(RSub(defense.zone_pct, league_avg(def, "zone_pct"))))
        safety_dev ==
            RAdd(RAdd(RAbs(RSub(defense.onehigh_pct, league_avg(def, "onehigh_pct"))),
                      RAbs(RSub(defense.twohigh_pct, league_avg(def, "twohigh_pct")))),
                 RAbs(RSub(defense.zerohigh_pct, league_avg(def, "zerohigh_pct"))))
        w == deviation_weights(coverage_dev, safety_dev)
        systemB_ratio ==
            RAdd(RMul(coverage_component, w[1]), RMul(safety_component, w[2]))
        final_ratio ==
            RAdd(RMul(systemA_ratio, RSub(R(1), cfg.deviation_boost)),
                 RMul(systemB_ratio, cfg.deviation_boost))
        adjusted_yprr == adjusted(base, final_ratio, blitz_ratio)
        raw_edge      == RDiv(RSub(adjusted_yprr, base), base)
        edge_pre      == RMul(raw_edge, R(100))
        route_share   == row.route_share
        penalty       == route_share_penalty(route_share, cfg)
        edge_score    == RMul(edge_pre, RSub(R(1), penalty))
        \* the divisor of every division executed for this row
        divisors ==
            {RAdd(routes, R(REG_K)), base}
            \cup (IF RGt(total_safety, R(0)) THEN {total_safety} ELSE {})
            \cup (IF RGt(RAdd(total_coverage, total_safety), R(0))
                  THEN {RAdd(total_coverage, total_safety)} ELSE {R(2)})
            \cup (IF RGt(RAdd(coverage_dev, safety_dev), R(0))
                  THEN {RAdd(coverage_dev, safety_dev)} ELSE {})
            \cup {R(2)}
            \cup (IF penalty_branch(route_share, cfg) = "ramp"
                  THEN {RSub(cfg.start_penalty, cfg.end_penalty)} ELSE {})
    IN  [ratios |-> <<man_ratio, zone_ratio, onehigh_ratio, twohigh_ratio,
                      zerohigh_ratio, blitz_ratio>>,
         coverage_component |-> coverage_component,
         safety_component |-> safety_component,
         systemA_ratio |-> systemA_ratio,
         systemB_ratio |-> systemB_ratio,
         final_ratio |-> final_ratio,
         adjusted_yprr |-> adjusted_yprr,
         raw_edge |-> raw_edge,
         edge_pre |-> edge_pre,
         route_share |-> route_share,
         penalty |-> penalty,
         edge_score |-> edge_score,
         divisors |-> divisors]

\* one entry of `results` (the dict appended per eligible row); src is the
\* position of the receiver row in wr_df, which becomes the row's identity
result_row(row, src, cfg, loc) ==
    [src       |-> src,
     Player    |-> row.player,
     Vs        |-> row.opponent,
     Route     |-> loc.route_share,
     Base      |-> round(row.base_yprr, 100),
     Adj       |-> round(loc.adjusted_yprr, 100),
     Matchup   |-> round(RMul(loc.edge_score, RSub(R(1), cfg.deviation_boost)), 10),
     Deviation |-> round(RMul(loc.edge_score, cfg.deviation_boost), 10),
     Edge      |-> round(loc.edge_score, 10),
     Rk        |-> 0]

-----------------------------------------------------------------------------
(* src/app.py: the earlier model                                           *)

FULL_SAMPLE == Rat(75, 100)

HALF == Rat(1, 2)

RMax(x, y) == IF RGt(y, x) THEN y ELSE x

sample_size_penalty(routes, league_lead, scale) ==
    LET pct == RDiv(routes, league_lead)
    IN  IF RGe(pct, FULL_SAMPLE) THEN R(1)
        ELSE RMax(HALF, RMul(RDiv(pct, FULL_SAMPLE), scale))

\* ---- Skip invalid rows ---- and ---- SAFE OPPONENT LOOKUP ----
root_skipped(row, def) ==
    \/ RLe(row.routes_played, R(0))
    \/ RLe(row.base_yprr, R(0))
    \/ row.opponent = "NaN"
    \/ row.opponent \notin DOMAIN def

\* blitz_adj
root_blitz_adj(row, defense) ==
    RAdd(RMul(defense.blitz_pct, row.yprr_blitz),
         RMul(defense.noblitz_pct, row.yprr_standard))

\* the body of the loop of src/app.py for one valid row
root_score(row, def, cfg) ==
    LET defense == def[row.opponent]
        base    == row.base_yprr
        sample_pen ==
            sample_size_penalty(row.routes_played, cfg.league_lead, cfg.sample_scaling)
        cov_yprr ==
            RAdd(RMul(defense.man_pct, row.yprr_man), RMul(defense.zone_pct, row.yprr_zone))
        safety_adj ==
            RAdd(RMul(defense.onehigh_pct, row.yprr_1high),
                 RMul(defense.twohigh_pct, row.yprr_2high))
        blitz_adj == root_blitz_adj(row, defense)
        coverage_ratio ==
            RMul(RMul(RDiv(cov_yprr, base), RDiv(safety_adj, base)), RDiv(blitz_adj, base))
        coverage_adjustment ==
            RAdd(R(1), RMul(cfg.coverage_weight, RSub(coverage_ratio, R(1))))
        adjusted_yprr ==
            RMul(RMul(RMul(base, coverage_adjustment), sample_pen), row.season_route_share)
    IN  [sample_pen |-> sample_pen,
         blitz_adj |-> blitz_adj,
         coverage_ratio |-> coverage_ratio,
         adjusted_yprr |-> adjusted_yprr]

root_result_row(row, src, loc) ==
    [src           |-> src,
     player        |-> row.player,
     opponent      |-> row.opponent,
     base_yprr     |-> round(row.base_yprr, 10),
     adjusted_yprr |-> round(loc.adjusted_yprr, 10),
     edge          |-> NaN,
     rank          |-> 0]

\* Series.rank(ascending=False) with the default method "average", then
\* .astype(int): the mean of the positions a value's ties occupy, truncated
root_rank(rows, k) ==
    LET v       == rows[k].adjusted_yprr
        greater == Cardinality({j \in DOMAIN rows : RGt(rows[j].adjusted_yprr, v)})
        equal   == Cardinality({j \in DOMAIN rows : rows[j].adjusted_yprr = v})
    IN  (2 * greater + equal + 1) \div 2

-----------------------------------------------------------------------------
(* DataFrame helpers                                                      *)

\* Series.sort_values(ascending=...).index: every arrangement of the positions
\* 1..Len(keys) that the sort may return.  sort_values defaults to quicksort,
\* which is not stable, so positions with equal keys may come in any order.
sort_values(keys, ascending) ==
    LET n == Len(keys)
    IN  {p \in [1..n -> 1..n] :
            /\ \A a, b \in 1..n : a # b => p[a] # p[b]
            /\ \A a, b \in 1..n :
                  a < b => IF ascending THEN ~RLt(keys[p[b]], keys[p[a]])
                           ELSE ~RGt(keys[p[b]], keys[p[a]])}

\* DataFrame.reindex / the frame in the order a sort returned
Arrange(rows, p) == [k \in 1..Len(rows) |-> rows[p[k]]]

-----------------------------------------------------------------------------
(* One call of compute_model                                               *)

VARIABLES
    app,                  \* which file's compute_model runs: "Inputs" or "root"
    wr_df,                \* the receiver table, a sequence of rows
    def_df,               \* the defense table, team code -> profile (fractions)
    cfg,                  \* the keyword arguments / sidebar values of the call
    qualified_toggle_35,  \* sidebar checkbox (module global)
    qualified_toggle_20,  \* sidebar checkbox (module global)
    pc,                   \* "loop", "done" (returned) or "error" (raised)
    i,                    \* position of the loop in wr_df
    results,              \* the list the loop appends to
    locals,               \* the loop body's locals, one record per appended row
    df,                   \* the returned frame
    err                   \* the exception raised, "" if none

vars == <<app, wr_df, def_df, cfg, qualified_toggle_35, qualified_toggle_20,
          pc, i, results, locals, df, err>>

inputs == <<app, wr_df, def_df, cfg, qualified_toggle_35, qualified_toggle_20>>

\* for _, row in wr_df.iterrows(): a row that hits one of the `continue`s
Inputs_skip ==
    /\ app = "Inputs" /\ pc = "loop" /\ i <= Len(wr_df)
    /\ skipped(wr_df[i], def_df)
    /\ i' = i + 1
    /\ UNCHANGED <<inputs, pc, results, locals, df, err>>

\* ... a row that is scored and appended to results
Inputs_score ==
    /\ app = "Inputs" /\ pc = "loop" /\ i <= Len(wr_df)
    /\ ~skipped(wr_df[i], def_df)
    /\ LET loc == score(wr_df[i], def_df, cfg)
       IN  /\ results' = Append(results, result_row(wr_df[i], i, cfg, loc))
           /\ locals' = Append(locals, loc)
    /\ i' = i + 1
    /\ UNCHANGED <<inputs, pc, df, err>>

Qualified35(r) == RGe(r.Route, R(QUALIFIED_35))

Qualified20(r) == RGe(r.Route, R(QUALIFIED_20))

\* the route-share qualification filter on the frame
qualified(rows) ==
    IF qualified_toggle_35 THEN SelectSeq(rows, Qualified35)
    ELSE IF qualified_toggle_20 THEN SelectSeq(rows, Qualified20)
    ELSE rows

\* df["Edge"].abs()
abs_Edge(rows) == [k \in 1..Len(rows) |-> RAbs(rows[k].Edge)]

\* df["Rk"] = range(1, len(df) + 1)
with_Rk(rows) == [k \in 1..Len(rows) |-> [rows[k] EXCEPT !.Rk = k]]

\* after the loop: DataFrame(results), the filter, the sort on |Edge| and Rk.
\* DataFrame([]) has no columns, so the first column lookup raises KeyError.
Inputs_tail ==
    /\ app = "Inputs" /\ pc = "loop" /\ i > Len(wr_df)
    /\ IF results = <<>>
       THEN /\ pc' = "error"
            /\ err' = "KeyError"
            /\ df' = <<>>
       ELSE /\ \E p \in sort_values(abs_Edge(qualified(results)), FALSE) :
                 df' = with_Rk(Arrange(qualified(results), p))
            /\ pc' = "done"
            /\ err' = ""
    /\ UNCHANGED <<inputs, i, results, locals>>

Root_skip ==
    /\ app = "root" /\ pc = "loop" /\ i <= Len(wr_df)
    /\ root_skipped(wr_df[i], def_df)
    /\ i' = i + 1
    /\ UNCHANGED <<inputs, pc, results, locals, df, err>>

Root_score ==
    /\ app = "root" /\ pc = "loop" /\ i <= Len(wr_df)
    /\ ~root_skipped(wr_df[i], def_df)
    /\ LET loc == root_score(wr_df[i], def_df, cfg)
       IN  /\ results' = Append(results, root_result_row(wr_df[i], i, loc))
           /\ locals' = Append(locals, loc)
    /\ i' = i + 1
    /\ UNCHANGED <<inputs, pc, df, err>>

\* df["rank"]
rank_column(rows) == [k \in 1..Len(rows) |-> R(rows[k].rank)]

\* df["edge"] and df["rank"]
root_ranked(rows) ==
    [k \in 1..Len(rows) |->
        [rows[k] EXCEPT !.edge = round(RSub(rows[k].adjusted_yprr, rows[k].base_yprr), 10),
                        !.rank = root_rank(rows, k)]]

\* after the loop: empty frame returned as is; otherwise edge, rank (astype(int)
\* raises on a NaN rank) and sort_values("rank")
Root_tail ==
    /\ app = "root" /\ pc = "loop" /\ i > Len(wr_df)
    /\ IF results = <<>>
       THEN /\ pc' = "done" /\ err' = "" /\ df' = <<>>
       ELSE IF \E k \in DOMAIN results : isna(results[k].adjusted_yprr)
       THEN /\ pc' = "error" /\ err' = "IntCastingNaNError" /\ df' = <<>>
       ELSE /\ \E p \in sort_values(rank_column(root_ranked(results)), TRUE) :
                 df' = Arrange(root_ranked(results), p)
            /\ pc' = "done"
            /\ err' = ""
    /\ UNCHANGED <<inputs, i, results, locals>>

Next ==
    \/ Inputs_skip
    \/ Inputs_score
    \/ Inputs_tail
    \/ Root_skip
    \/ Root_score
    \/ Root_tail

-----------------------------------------------------------------------------
(* Inputs of a call                                                        *)

\* the largest receiver table
MaxRows == 2

\* a defense profile from its six percentages, in tenths
Profile(man, zone, one, two, zero, blitz) ==
    [man_pct |-> Rat(man, 10), zone_pct |-> Rat(zone, 10),
     onehigh_pct |-> Rat(one, 10), twohigh_pct |-> Rat(two, 10),
     zerohigh_pct |-> Rat(zero, 10), blitz_pct |-> Rat(blitz, 10),
     noblitz_pct |-> Rat(10 - blitz, 10)]

Typical   == Profile(6, 4, 3, 3, 4, 2)
AllZero   == Profile(0, 0, 0, 0, 0, 0)
Lopsided  == Profile(5, 3, 5, 5, 0, 0)
NoShell   == Profile(6, 4, 0, 0, 0, 5)
Saturated == Profile(10, 10, 0, 0, 0, 10)

\* a receiver with every split observed, facing DAL
Receiver ==
    [player |-> "WR", opponent |-> "DAL",
     base_yprr |-> R(2), routes_played |-> R(20),
     yprr_man |-> R(3), yprr_zone |-> R(2),
     yprr_1high |-> R(2), yprr_2high |-> R(2), yprr_0high |-> R(2),
     yprr_blitz |-> R(2), yprr_standard |-> R(2),
     route_share |-> R(40), season_route_share |-> Rat(1, 2)]

NoSplits ==
    [Receiver EXCEPT !.yprr_man = NaN, !.yprr_zone = NaN, !.yprr_1high = NaN,
                     !.yprr_2high = NaN, !.yprr_0high = NaN, !.yprr_blitz = NaN,
                     !.yprr_standard = NaN]

\* the defaults of compute_model's keyword arguments and of the sidebar
DefaultCfg ==
    [max_penalty |-> Rat(6, 10), exponent |-> 2,
     start_penalty |-> R(30), end_penalty |-> R(5),
     deviation_boost |-> Rat(1, 4),
     league_lead |-> R(100), sample_scaling |-> Rat(1, 2),
     coverage_weight |-> Rat(4, 10)]

\* players are named by their position in the table
Named(t) == [k \in DOMAIN t |-> [t[k] EXCEPT !.player = <<"WR", k>>]]

Tables(Rows, n) == UNION {[1..k -> Rows] : k \in 0..n}

Start ==
    /\ pc = "loop" /\ i = 1
    /\ results = <<>> /\ locals = <<>> /\ df = <<>> /\ err = ""

\* receivers for the eligibility, filter and ranking steps
MixedRows ==
    {Receiver, NoSplits,
     [Receiver EXCEPT !.yprr_man = R(1)],
     [Receiver EXCEPT !.yprr_man = R(2)],
     [Receiver EXCEPT !.route_share = R(10), !.routes_played = R(60)],
     [Receiver EXCEPT !.route_share = R(25), !.season_route_share = Rat(1, 4)],
     [Receiver EXCEPT !.base_yprr = R(0)],
     [Receiver EXCEPT !.base_yprr = Rat(-1, 2)],
     [Receiver EXCEPT !.base_yprr = Rat(3, 10)],
     [Receiver EXCEPT !.routes_played = R(0)],
     [Receiver EXCEPT !.opponent = "NaN"],
     [Receiver EXCEPT !.opponent = "XXX"]}

Init ==
    /\ app \in {"Inputs", "root"}
    /\ wr_df \in {Named(t) : t \in Tables(MixedRows, MaxRows)}
    /\ def_df \in {("DAL" :> Typical), ("DAL" :> Typical) @@ ("PHI" :> Lopsided)}
    /\ cfg = DefaultCfg
    /\ qualified_toggle_35 \in BOOLEAN
    /\ qualified_toggle_20 \in BOOLEAN
    /\ Start

Spec == Init /\ [][Next]_vars

\* the receivers that differ from r in column col only, with a value of Values
Twins(r, col, Values) == {[r EXCEPT ![col] = v] : v \in Values \ {r[col]}}

\* a table headed by a receiver of Seeds, followed by twins of it
Families(Seeds, col, Values, n) ==
    UNION {{<<r>> \o t : t \in Tables(Twins(r, col, Values), n - 1)} : r \in Seeds}

Ineligible == [Receiver EXCEPT !.routes_played = R(0)]

\* --- scoring: many split patterns against many defense profiles ---------

ManZone == {<<NaN, NaN>>, <<R(6), R(6)>>, <<R(0), R(0)>>, <<R(3), NaN>>, <<R(6), R(0)>>}

Shells == {<<NaN, NaN, NaN>>, <<R(6), R(6), R(6)>>, <<R(0), R(0), R(0)>>,
           <<R(3), R(0), NaN>>}

BlitzVals == {NaN, R(0), R(6)}

\* <<base_yprr, routes_played, route_share>>
Volumes == {<<R(2), R(20), R(40)>>, <<Rat(1, 2), R(60), R(10)>>}

ScoreRows ==
    {[Receiver EXCEPT !.base_yprr = v[1], !.routes_played = v[2],
                      !.yprr_man = mz[1], !.yprr_zone = mz[2],
                      !.yprr_1high = sh[1], !.yprr_2high = sh[2], !.yprr_0high = sh[3],
                      !.yprr_blitz = b, !.yprr_standard = mz[2], !.route_share = v[3]] :
        v \in Volumes, mz \in ManZone, sh \in Shells, b \in BlitzVals}

ScoreDefs ==
    {("DAL" :> d) : d \in {Typical, AllZero, Lopsided, NoShell, Saturated}}
    \cup {("DAL" :> d) @@ ("PHI" :> AllZero) :
             d \in {Typical, AllZero, Lopsided, NoShell, Saturated}}

ScoreCfgs ==
    {DefaultCfg,
     [DefaultCfg EXCEPT !.start_penalty = R(20), !.end_penalty = R(20),
                        !.deviation_boost = Rat(1, 2)]}

RootScoreRows ==
    {[Receiver EXCEPT !.yprr_man = m, !.yprr_blitz = b] :
        m \in {NaN, R(3)}, b \in BlitzVals}

InitScore ==
    /\ \/ /\ app = "Inputs"
          /\ wr_df \in {Named(t) : t \in Families(ScoreRows, "yprr_blitz", BlitzVals, MaxRows)
                                        \cup {<<Ineligible>>}}
          /\ def_df \in ScoreDefs
       \/ /\ app = "root"
          /\ wr_df \in {Named(t) : t \in Families(RootScoreRows, "yprr_blitz", BlitzVals, MaxRows)
                                        \cup {<<Ineligible>>}}
          /\ def_df \in {("DAL" :> Typical), ("DAL" :> Lopsided)}
    /\ cfg \in ScoreCfgs
    /\ qualified_toggle_35 = FALSE
    /\ qualified_toggle_20 = FALSE
    /\ Start

SpecScore == InitScore /\ [][Next]_vars

\* --- penalty: route shares against configurations, malformed ones too ---

Shares == {R(0), R(5), R(10), R(20), R(30), R(40)}

Routes == {R(20), R(60), R(75), R(90)}

PenaltyCfgs ==
    {[DefaultCfg EXCEPT !.max_penalty = m, !.exponent = e,
                        !.start_penalty = t[1], !.end_penalty = t[2]] :
        m \in {Rat(-1, 2), R(0), Rat(6, 10)}, e \in {1, 2},
        t \in {<<R(30), R(5)>>, <<R(5), R(30)>>, <<R(20), R(20)>>}}

SampleCfgs ==
    {[DefaultCfg EXCEPT !.sample_scaling = x] : x \in {R(0), Rat(1, 2), R(1)}}

InitPenalty ==
    /\ \/ /\ app = "Inputs"
          /\ wr_df \in {Named(t) :
                t \in Families({[Receiver EXCEPT !.route_share = x] : x \in Shares},
                               "route_share", Shares, MaxRows) \cup {<<Ineligible>>}}
          /\ cfg \in PenaltyCfgs
       \/ /\ app = "root"
          /\ wr_df \in {Named(t) :
                t \in Families({[Receiver EXCEPT !.routes_played = x] : x \in Routes},
                               "routes_played", Routes, MaxRows) \cup {<<Ineligible>>}}
          /\ cfg \in SampleCfgs
    /\ def_df = ("DAL" :> Typical)
    /\ qualified_toggle_35 = FALSE
    /\ qualified_toggle_20 = FALSE
    /\ Start

SpecPenalty == InitPenalty /\ [][Next]_vars

-----------------------------------------------------------------------------
(* Properties                                                              *)

Scored == DOMAIN locals

\* the receiver row a scored entry came from
Source(k) == wr_df[results[k].src]

Eligible(row) ==
    /\ RGt(row.base_yprr, R(0))
    /\ RGt(row.routes_played, R(0))
    /\ row.opponent # "NaN"
    /\ row.opponent \in DOMAIN def_df

RankOf(r) == IF app = "Inputs" THEN r.Rk ELSE r.rank

EdgeOf(r) == IF app = "Inputs" THEN r.Edge ELSE r.edge

\* C2: a returned non-empty frame of N rows holds the ranks 1..N, each once
\* and increasing in output order, and is in descending order of |edge|.
C2_RankConsistency ==
    (pc = "done" /\ df # <<>>) =>
        /\ \A k \in DOMAIN df : RankOf(df[k]) = k
        /\ \A a, b \in DOMAIN df :
              a < b => RGe(RAbs(EdgeOf(df[a])), RAbs(EdgeOf(df[b])))

\* C3: a call whose loop appended nothing returns an empty frame and raises
\* nothing, whatever the qualification toggles.
C3_EmptyResult ==
    (pc # "loop" /\ results = <<>>) => (pc = "done" /\ err = "" /\ df = <<>>)

InRange(x, lo, hi) == RLe(lo, x) /\ RLe(x, hi)

AllSplitsMissing(row) ==
    /\ isna(row.yprr_man) /\ isna(row.yprr_zone)
    /\ isna(row.yprr_1high) /\ isna(row.yprr_2high) /\ isna(row.yprr_0high)
    /\ isna(row.yprr_blitz)

\* C5: a scored receiver with every situational split missing has composite
\* ratio exactly 1: adjusted_yprr = base_yprr and the edge score before the
\* penalty is 0, whatever the opponent's profile.
C5_MissingSplitNeutral ==
    \A k \in Scored :
        AllSplitsMissing(Source(k)) =>
            /\ locals[k].adjusted_yprr = Source(k).base_yprr
            /\ app = "Inputs" =>
                  /\ RDiv(locals[k].adjusted_yprr, Source(k).base_yprr) = R(1)
                  /\ locals[k].edge_pre = R(0)

\* C6: of two scored receivers that differ only in route volume, the one with
\* the higher route share has a penalty no larger than the other's; in
\* src/app.py, the one with more routes has a multiplier no smaller.
C6_PenaltyMonotone ==
    \A a, b \in Scored :
        /\ (/\ app = "Inputs"
            /\ [Source(a) EXCEPT !.route_share = R(0), !.player = ""]
                   = [Source(b) EXCEPT !.route_share = R(0), !.player = ""]
            /\ RGe(locals[a].route_share, locals[b].route_share))
              => RLe(locals[a].penalty, locals[b].penalty)
        /\ (/\ app = "root"
            /\ [Source(a) EXCEPT !.routes_played = R(0), !.player = ""]
                   = [Source(b) EXCEPT !.routes_played = R(0), !.player = ""]
            /\ RGe(Source(a).routes_played, Source(b).routes_played))
              => RGe(locals[a].sample_pen, locals[b].sample_pen)

\* C7: a scored row whose route share is <= end_penalty has penalty exactly
\* max_penalty, and its final edge score is the edge score before the penalty
\* times (1 - max_penalty).
C7_ZeroConfidence ==
    app = "Inputs" =>
        \A k \in Scored :
            RLe(locals[k].route_share, cfg.end_penalty) =>
                /\ locals[k].penalty = cfg.max_penalty
                /\ locals[k].edge_score
                       = RMul(locals[k].edge_pre, RSub(R(1), cfg.max_penalty))

Malformed(c) ==
    \/ RGe(c.end_penalty, c.start_penalty)
    \/ RLt(c.max_penalty, R(0))

\* C8: a call with a malformed configuration (end_penalty >= start_penalty, or
\* max_penalty < 0) scores no row and ends in a configuration error.
C8_RejectsMalformed ==
    (app = "Inputs" /\ Malformed(cfg)) =>
        /\ results = <<>>
        /\ df = <<>>
        /\ pc # "loop" => (pc = "error" /\ err = "ConfigError")

\* C9: against an opponent with blitz_pct = 0, two scored receivers that
\* differ only in yprr_blitz get the same adjusted_yprr and the same edge.
C9_BlitzInProportion ==
    \A a, b \in Scored :
        (/\ [Source(a) EXCEPT !.yprr_blitz = NaN, !.player = ""]
                = [Source(b) EXCEPT !.yprr_blitz = NaN, !.player = ""]
         /\ def_df[Source(a).opponent].blitz_pct = R(0))
          => /\ locals[a].adjusted_yprr = locals[b].adjusted_yprr
             /\ app = "Inputs" => locals[a].edge_score = locals[b].edge_score

ZeroProfile(d) == \A c \in PctCols : d[c] = R(0)

\* C10: scoring a receiver against a profile whose coverage and safety
\* percentages are all zero divides by nothing that is zero and gives numbers:
\* the safety component is 0 and no local of the row is NaN.
C10_ZeroProfileDefined ==
    app = "Inputs" =>
        \A k \in Scored :
            ZeroProfile(def_df[Source(k).opponent]) =>
                /\ locals[k].safety_component = R(0)
                /\ R(0) \notin locals[k].divisors
                /\ \A f \in {"coverage_component", "systemA_ratio", "systemB_ratio",
                             "final_ratio", "adjusted_yprr", "raw_edge", "edge_pre",
                             "penalty", "edge_score"} : ~isna(locals[k][f])
                /\ ~isna(results[k].Edge) /\ ~isna(results[k].Adj)

\* a receiver was scored against an all-zero profile
C10_Witness ==
    /\ app = "Inputs"
    /\ \E k \in Scored : ZeroProfile(def_df[Source(k).opponent])

=============================================================================
